---- MODULE Spec2Model ----
(***************************************************************************)
(* keepd: a retention daemon for ZFS snapshots.  The model follows         *)
(* src/service.go (Enforce, FrequentJob, RegularJob, Emit), src/zfs.go     *)
(* (the storage adapter), src/policy.go (Plan, ExtractPools) and the       *)
(* scheduler loop of main (src/unnamed/part_001).                          *)
(*                                                                         *)
(* Every storage adapter call is one atomic step of the job that makes it; *)
(* the local computation of a job between two adapter calls belongs to the *)
(* step of the earlier call.  Jobs are goroutines and interleave freely.   *)
(***************************************************************************)
EXTENDS Integers, Sequences, FiniteSets, TLC

----------------------------------------------------------------------------
(* Calendar arithmetic of Go's time package on Unix seconds.               *)

\* Days since 1970-01-01 of the instant `sec` seen in a zone `off` seconds
\* east of UTC (time.Unix(sec, 0) carries the Local location).
DaysOf(sec, off) == (sec + off) \div 86400

\* Time.Minute()
MinuteOf(sec, off) == ((sec + off) % 3600) \div 60

\* Number of leap days in the years 1..y of the proleptic Gregorian calendar.
LeapsThrough(y) == (y \div 4) - (y \div 100) + (y \div 400)

\* Day number (days since 1970-01-01) of January 1st of year y.
DaysBeforeYear(y) == 365 * (y - 1970) + LeapsThrough(y - 1) - LeapsThrough(1969)

\* Time.Year() of a day number: the year y with
\* DaysBeforeYear(y) <= d < DaysBeforeYear(y + 1).
YearOfDays(d) ==
    LET guess == 1970 + (d \div 366)
        RECURSIVE Up(_)
        Up(y) == IF DaysBeforeYear(y + 1) <= d THEN Up(y + 1) ELSE y
        RECURSIVE Down(_)
        Down(y) == IF DaysBeforeYear(y) > d THEN Down(y - 1) ELSE y
    IN  Up(Down(guess))

\* Time.YearDay(): 1..366
YearDayOfDays(d) == d - DaysBeforeYear(YearOfDays(d)) + 1

IsLeap(y) == (y % 4 = 0) /\ ((y % 100 # 0) \/ (y % 400 = 0))

\* Days of the year before the first of month m (1..12).
DaysBeforeMonth(y, m) ==
    LET cum == <<0, 31, 59, 90, 120, 151, 181, 212, 243, 273, 304, 334, 365>>
    IN  cum[m] + (IF m > 2 /\ IsLeap(y) THEN 1 ELSE 0)

\* Time.Month(): 1..12
MonthOfDays(d) ==
    LET y == YearOfDays(d)
        yd == YearDayOfDays(d) - 1
    IN  CHOOSE m \in 1..12 :
            /\ DaysBeforeMonth(y, m) <= yd
            /\ (m = 12 \/ yd < DaysBeforeMonth(y, m + 1))

\* Time.Weekday(): 0 = Sunday; 1970-01-01 was a Thursday.
WeekdayOfDays(d) == (d + 4) % 7

\* Time.ISOWeek(): the year and week of the Thursday of the same
\* Monday-based week.
ISOWeekOfDays(d) ==
    LET wd == WeekdayOfDays(d)
        shift == IF 4 - wd = 4 THEN -3 ELSE 4 - wd
        thu == d + shift
    IN  <<YearOfDays(thu), ((YearDayOfDays(thu) - 1) \div 7) + 1>>

Year(sec, off) == YearOfDays(DaysOf(sec, off))
YearDay(sec, off) == YearDayOfDays(DaysOf(sec, off))
Month(sec, off) == MonthOfDays(DaysOf(sec, off))
ISOWeek(sec, off) == ISOWeekOfDays(DaysOf(sec, off))

----------------------------------------------------------------------------
(* Decimal text of pool property values: strconv.FormatInt, ParseInt.      *)

Digits == <<"0", "1", "2", "3", "4", "5", "6", "7", "8", "9">>

DigitChars == {Digits[i] : i \in 1..10}

DigitVal(c) == (CHOOSE i \in 1..10 : Digits[i] = c) - 1

RECURSIVE FormatNat(_)
FormatNat(n) ==
    IF n < 10 THEN <<Digits[n + 1]>>
    ELSE Append(FormatNat(n \div 10), Digits[(n % 10) + 1])

\* The text of the second of the day, which C12 rules out: a later tick
\* can give a smaller value.
FormatIntOfDay(n) == FormatNat(n % 86400)

\* strconv.FormatInt(n, 10)
FormatInt(n) == IF n < 0 THEN <<"-">> \o FormatNat(0 - n) ELSE FormatNat(n)

RECURSIVE DigitsValue(_)
DigitsValue(s) ==
    IF s = <<>> THEN 0
    ELSE 10 * DigitsValue(SubSeq(s, 1, Len(s) - 1)) + DigitVal(s[Len(s)])

\* strconv.ParseInt(s, 10, 64): [ok, value].  An optional sign, then one or
\* more digits; anything else is a syntax error.
ParseInt(s) ==
    LET signed == s # <<>> /\ s[1] \in {"+", "-"}
        body == IF signed THEN Tail(s) ELSE s
        good == body # <<>> /\ \A i \in 1..Len(body) : body[i] \in DigitChars
    IN  IF ~good THEN [ok |-> FALSE, value |-> 0]
        ELSE [ok |-> TRUE,
              value |-> IF signed /\ s[1] = "-" THEN 0 - DigitsValue(body)
                        ELSE DigitsValue(body)]

----------------------------------------------------------------------------
(* The policy: targets, plans and keep counts (src/policy.go).             *)

\* The fields of Plan.Keep, lower-cased: the tags of NewSnapshotMatcher.
Tiers == {"frequent", "hourly", "daily", "weekly", "monthly"}

\* The keys of jobsByTag in RegularJob.
CalTiers == {"daily", "weekly", "monthly"}

\* A target is its path, one string per segment: "a/x/y" is <<"a","x","y">>.
TX == <<"a", "x">>
TY == <<"a", "x", "y">>
TZ == <<"b", "z">>

NoTarget == <<>>

\* A keep count is a *uint: Nil, or a 64-bit value held as four 16-bit limbs,
\* most significant first.
Nil == <<>>

Uint(n) == <<0, 0, 0, n>>

\* 2^64 - 1
UintMax == <<65535, 65535, 65535, 65535>>

NoKeep == [tier \in Tiers |-> Nil]

\* Plan{Recursive, Keep}
Plan(recursive, keep) == [Recursive |-> recursive, Keep |-> keep]

\* Policy.Targets after LoadPolicy.  x is snapshotted recursively and keeps
\* two frequent snapshots; y is a child dataset of x with no frequent plan of
\* its own and an hourly tier that only prunes.
PolicySmall ==
    [Targets |->
        (TX :> Plan(TRUE, [NoKeep EXCEPT !["frequent"] = Uint(2)])
      @@ TY :> Plan(FALSE, [NoKeep EXCEPT !["hourly"] = Uint(0)]))]

\* The same with an hourly keep count above the largest signed integer.
PolicyLarge ==
    [Targets |->
        (TX :> Plan(TRUE, [NoKeep EXCEPT !["frequent"] = Uint(2)])
      @@ TY :> Plan(FALSE, [NoKeep EXCEPT !["hourly"] = UintMax]))]

\* Two pools, one target each, and a daily tier.
PolicyPools ==
    [Targets |->
        (TX :> Plan(FALSE, [NoKeep EXCEPT !["daily"] = Uint(1)])
      @@ TZ :> Plan(FALSE, NoKeep))]

\* One target with a daily tier.
PolicyOne ==
    [Targets |-> (TX :> Plan(FALSE, [NoKeep EXCEPT !["daily"] = Uint(1)]))]

\* Two targets with the frequent tier, the outer one recursive.
PolicyTwo ==
    [Targets |->
        (TX :> Plan(TRUE, [NoKeep EXCEPT !["frequent"] = Uint(1)])
      @@ TY :> Plan(FALSE, [NoKeep EXCEPT !["frequent"] = Uint(1)]))]

\* Two nested targets with room for the three frequent snapshots they hold.
PolicyNest ==
    [Targets |->
        (TX :> Plan(TRUE, [NoKeep EXCEPT !["frequent"] = Uint(3)])
      @@ TY :> Plan(FALSE, [NoKeep EXCEPT !["frequent"] = Uint(3)]))]

\* Two pools, one target each: a daily keep count above the largest signed
\* integer on x, and one daily snapshot kept on z.
PolicyStop ==
    [Targets |->
        (TX :> Plan(FALSE, [NoKeep EXCEPT !["daily"] = UintMax])
      @@ TZ :> Plan(FALSE, [NoKeep EXCEPT !["daily"] = Uint(1)]))]

Policies == {PolicySmall, PolicyLarge}

TargetsOf(pol) == DOMAIN pol.Targets

\* Policy.ExtractPools: the set of first path segments.
ExtractPools(pol) == {t[1] : t \in TargetsOf(pol)}

\* The orders in which ExtractPools can return the pools (map iteration).
PoolOrders(pol) ==
    {s \in [1..Cardinality(ExtractPools(pol)) -> ExtractPools(pol)] :
        \A i, k \in DOMAIN s : i # k => s[i] # s[k]}

\* A selector that reads a missing keep count as 0, which C4 rules out.
KeepFnZero(p, tag) == IF p.Keep[tag] = Nil THEN Uint(0) ELSE p.Keep[tag]

\* the selector closures of FrequentJob and RegularJob
KeepFn(p, tag) == p.Keep[tag]

\* *keep >= 0, which C3 rules out: a snapshot is created for keep = 0 too.
KeepPositiveOrZero(k) == \A i \in 1..4 : k[i] >= 0

\* *keep > 0
KeepPositive(k) == \E i \in 1..4 : k[i] > 0

\* int(*keep) < 0: the conversion reinterprets the 64 bits.
IntNegative(k) == k[1] >= 32768

\* The value of a keep count below 2^16, and 2^16 for any larger one:
\* no list of the model is that long.
SmallValue(k) == IF k[1] = 0 /\ k[2] = 0 /\ k[3] = 0 THEN k[4] ELSE 65536

\* len(names) <= int(*keep) + 1, which C1 rules out: one snapshot too many
\* is left.
NothingToPruneLax(names, k) ==
    IF IntNegative(k) THEN FALSE ELSE Len(names) <= SmallValue(k) + 1

\* A list that is never pruned, which C22 rules out.
NothingToPruneAlways(names, k) == TRUE

\* len(names) <= int(*keep)
NothingToPrune(names, k) ==
    IF IntNegative(k) THEN FALSE ELSE Len(names) <= SmallValue(k)

\* names[int(*keep):] panics for a negative bound.
SlicePanics(names, k) == IntNegative(k)

\* names[:len(names)-int(*keep)], which C2 rules out: the newest snapshots
\* are destroyed.
PruneListNewest(names, k) == SubSeq(names, 1, Len(names) - SmallValue(k))

\* names[int(*keep):]
PruneList(names, k) == SubSeq(names, SmallValue(k) + 1, Len(names))

----------------------------------------------------------------------------
(* Storage adapter (src/zfs.go): the text of a failed tool call and the    *)
(* error it is mapped to.                                                  *)

OK == "ok"

ErrTexts == {"dataset does not exist", "permission denied"}

Outcomes == {OK} \cup ErrTexts

NotFoundText == "could not find any snapshots to destroy"

\* CreateSnapshot's switch
CreateErr(text) ==
    CASE text = "dataset does not exist" -> "ErrDatasetNotFound"
      [] text = "dataset already exists" -> "ErrSnapshotAlreadyExists"
      [] text = "permission denied" -> "ErrPermissionDenied"
      [] OTHER -> "other"

\* DestroySnapshot's switch
DestroyErr(text) ==
    CASE text = "dataset does not exist" -> "ErrDatasetNotFound"
      [] text = NotFoundText -> "ErrSnapshotNotFound"
      [] text = "permission denied" -> "ErrPermissionDenied"
      [] OTHER -> "other"

\* ListSnapshotNames' error branch
ListErr(text) ==
    IF text = "dataset does not exist" THEN "ErrDatasetNotFound" ELSE "other"

\* GetPoolProperty's switch
GetErr(text) ==
    CASE text = "missing pool name" -> "ErrPoolNotFound"
      [] text = "bad property list" -> "ErrInvalidProperty"
      [] OTHER -> "other"

\* SetPoolProperty's switch
SetErr(text) ==
    CASE text = "is not a pool" -> "ErrPoolNotFound"
      [] text = "invalid property" -> "ErrInvalidProperty"
      [] text = "permission denied" -> "ErrPermissionDenied"
      [] OTHER -> "other"

\* ReasonOf
ReasonOf(err) ==
    CASE err = "nil" -> ""
      [] err = "ErrDatasetNotFound" -> "target dataset not found"
      [] err = "ErrPoolNotFound" -> "pool not found"
      [] err = "ErrSnapshotAlreadyExists" -> "snapshot already exists"
      [] err = "ErrSnapshotNotFound" -> "target snapshot not found"
      [] err = "ErrInvalidProperty" -> "invalid property"
      [] err = "ErrPermissionDenied" -> "permission denied"
      [] OTHER -> ""

\* The dataset t and the targets below it: what a recursive call reaches.
IsPrefix(s, t) == Len(s) <= Len(t) /\ SubSeq(t, 1, Len(s)) = s

Reach(pol, t, recursive) ==
    IF recursive THEN {u \in TargetsOf(pol) : IsPrefix(t, u)} ELSE {t}

RECURSIVE SortDesc(_)
\* `zfs list -S creation`: newest first.  A snapshot is named by its
\* creation stamp.
SortDesc(S) ==
    IF S = {} THEN <<>>
    ELSE LET m == CHOOSE a \in S : \A b \in S : b <= a
         IN  <<m>> \o SortDesc(S \ {m})

SeqToSet(s) == {s[i] : i \in DOMAIN s}

----------------------------------------------------------------------------
(* Bounds of the model.                                                    *)

\* Job slots: at most this many jobs are in flight at once.
MaxJobs == 2

\* Jobs spawned in one behaviour, over all runs of the daemon.
MaxSpawns == 2

\* The same for the runs over the turn of the year, each job returning
\* before the next tick.
CalJobs == 1

CalSpawns == 2

CalFaults == 2

\* Storage adapter calls that fail in one behaviour.
MaxFaults == 1

\* The same for the runs of two regular jobs in flight at once.
RaceFaults == 0

\* The instant (Unix seconds) of a tick on day number `day`.  The process
\* started at second 7 of a minute, so every tick falls on second 7.
TickAt(day, hour, minute) == day * 86400 + hour * 3600 + minute * 60 + 7

Sun2200 == TickAt(20086, 22, 0)     \* 2024-12-29 Sun 22:00:07Z
Sun2215 == TickAt(20086, 22, 15)    \* 2024-12-29 Sun 22:15:07Z
Sun2220 == TickAt(20086, 22, 20)    \* 2024-12-29 Sun 22:20:07Z
Tue2300 == TickAt(20088, 23, 0)     \* 2024-12-31 Tue 23:00:07Z
Wed0300 == TickAt(20089, 3, 0)      \* 2025-01-01 Wed 03:00:07Z
Wed0400 == TickAt(20089, 4, 0)      \* 2025-01-01 Wed 04:00:07Z
Wed0500 == TickAt(20089, 5, 0)      \* 2025-01-01 Wed 05:00:07Z

----------------------------------------------------------------------------
(* State.                                                                  *)

VARIABLES
    policy,     \* the loaded Policy, read-only after load
    pools,      \* Service.pools
    zone,       \* offset of time.Local
    ticker,     \* the instants of the ticks still to come, in order
    proc,       \* main: "running", "waiting" (in wg.Wait), "exited", "crashed"
    shutdown,   \* the shutdown channel holds a signal
    jobs,       \* the job goroutines, by slot
    snaps,      \* snaps[t][tier]: creation stamps of the snapshots on disk
    stamp,      \* stamp[tier]: the latest creation stamp handed out
    props,      \* props[pool][tier]: text of org.keepd:last<tier>job
    journal,    \* the event last handed to Journal.Add
    spawns,     \* jobs that may still be spawned
    faults,     \* storage adapter calls that may still fail
    written,    \* history: <<tier, tick, pool>> of the property writes done
    tried,      \* history: <<tier, tick, pool>> of the writes attempted
    enforced,   \* history: <<tier, tick>> of the calendar Enforces returned
    overlap,    \* history: two regular jobs have been in flight at once
    botched,    \* history: <<target, tier>> of the list calls that failed
                \* and of the failed destroys of a snapshot that existed
    halted,     \* history: the calendar Enforces a panic has cut short
    ev          \* what the last step did (observation only)

vars == <<policy, pools, zone, ticker, proc, shutdown, jobs, snaps, stamp,
          props, journal, spawns, faults, written, tried, enforced, overlap,
          botched, halted,
          ev>>

\* The observations: no action reads them.
hist == <<written, tried, enforced, overlap, botched, halted>>

Slots == DOMAIN jobs

NoEvent == [Type |-> "none"]

\* Observation of a step: the target pass that ended in it, the job that
\* was spawned, the trigger that was evaluated, the job that returned.
NoPass == [job |-> 0]
NoSpawn == [kind |-> "no tick"]
NoTrig == [tier |-> ""]
NoFin == [kind |-> "none"]
Quiet == [pass |-> NoPass, spawn |-> NoSpawn, trig |-> NoTrig, fin |-> NoFin]

\* What a regular job has seen: the tiers it has entered Enforce for, the
\* values its property reads returned, the writes done before it started.
NoSeen == [ran |-> {}, got |-> [c \in CalTiers |-> {}], prior |-> {}]

\* What a job's pass over its current target has done so far: the
\* snapshots it found, the stamp it created (0: none), the names it
\* destroyed in call order, its calls, the names its list returned (lok:
\* without an error), and whether every list and destroy call succeeded
\* and no other job changed the snapshots it works on.
NoInfo == [pre |-> {}, new |-> 0, del |-> <<>>, ncreate |-> 0,
           nlist |-> 0, ndestroy |-> 0, listed |-> <<>>, lok |-> FALSE,
           clean |-> TRUE]

Idle ==
    [kind |-> "none", tick |-> 0, pc |-> "idle", tag |-> "", todo |-> {},
     cur |-> NoTarget, pending |-> <<>>, rpool |-> 0, rtodo |-> {},
     lrt |-> [c \in CalTiers |-> 0], ttodo |-> {}, wpool |-> 0,
     info |-> NoInfo, seen |-> NoSeen]

\* The unset user property prints as "-".
Unset == <<"-">>

\* Snapshots left by earlier runs: three frequent ones on x and, taken
\* recursively, on y; two hourly ones on y.
InitSnaps(pol) ==
    [t \in TargetsOf(pol) |->
        [tier \in Tiers |->
            CASE tier = "frequent" /\ t \in {TX, TY} -> {1, 2, 3}
              [] tier = "hourly" /\ t = TY -> {1, 2}
              [] OTHER -> {}]]

InitStamp == [tier \in Tiers |->
                 CASE tier = "frequent" -> 3 [] tier = "hourly" -> 2
                   [] OTHER -> 0]

\* What every run starts from, for a policy, the zones and the ticks of
\* the scenario.
Start(pols, zones, ticks, njobs, nspawn, nfault) ==
    /\ policy \in pols
    /\ pools \in PoolOrders(policy)
    /\ zone \in zones
    /\ ticker = ticks
    /\ proc = "running"
    /\ shutdown = FALSE
    /\ jobs = [j \in 1..njobs |-> Idle]
    /\ snaps = InitSnaps(policy)
    /\ stamp = InitStamp
    /\ props = [p \in ExtractPools(policy) |-> [c \in CalTiers |-> Unset]]
    /\ journal = NoEvent
    /\ spawns = nspawn
    /\ faults = nfault
    /\ written = {}
    /\ tried = {}
    /\ enforced = {}
    /\ overlap = FALSE
    /\ botched = {}
    /\ halted = {}
    /\ ev = Quiet

\* One evening in UTC: a regular tick, a frequent tick, an idle tick.
Init ==
    Start(Policies, {0}, <<Sun2200, Sun2215, Sun2220>>,
          MaxJobs, MaxSpawns, MaxFaults)

----------------------------------------------------------------------------
(* Service.Enforce, one storage adapter call per step.                     *)

Alive == proc \in {"running", "waiting"}

\* The tool call of a step succeeds or fails with the text `out`.
Returns(out) ==
    IF out = OK THEN faults' = faults
    ELSE faults > 0 /\ faults' = faults - 1

PlanOf(t) == policy.Targets[t]

KeepOf(t, tag) == KeepFn(PlanOf(t), tag)

\* The targets of `todo` the range loop does not skip (keep == nil).
Enabled(todo, tag) == {t \in todo : KeepOf(t, tag) # Nil}

\* Service.Emit: the Event handed to the journal.
Event(type, target, job, recursive, err) ==
    [Type |-> type, Success |-> (err = "nil"), Target |-> target,
     Job |-> job, Recursive |-> recursive,
     Reason |-> ReasonOf(err)]

ErrOf(classified, out) == IF out = OK THEN "nil" ELSE classified

\* A calendar tier whose property is written before its Enforce, which C24
\* rules out.
StartEnforceWritten(job, tag) ==
    IF tag \in CalTiers /\ Len(pools) > 0
    THEN [job EXCEPT !.pc = "write", !.wpool = 1, !.tag = tag,
                     !.seen.ran = @ \cup {tag}]
    ELSE [job EXCEPT !.pc = "enforce", !.tag = tag,
                     !.todo = TargetsOf(policy), !.cur = NoTarget,
                     !.pending = <<>>, !.info = NoInfo,
                     !.seen.ran = @ \cup {tag}]

\* s.Enforce(keepFn) is entered: the range loop has every target ahead.
StartEnforce(job, tag) ==
    [job EXCEPT !.pc = "enforce", !.tag = tag, !.todo = TargetsOf(policy),
                !.cur = NoTarget, !.pending = <<>>, !.info = NoInfo,
                !.seen.ran = @ \cup {tag}]

\* The first read of RegularJob's loop over s.pools and jobsByTag.
StartRead(job) ==
    IF Len(pools) = 0
    THEN [job EXCEPT !.pc = "trigger", !.ttodo = CalTiers, !.tag = ""]
    ELSE [job EXCEPT !.pc = "read", !.rpool = 1, !.rtodo = CalTiers,
                     !.tag = ""]

\* The write loop begun at the last pool, which C11 rules out: the other
\* pools are not written.
StartWriteLast(job) ==
    IF Len(pools) = 0 THEN [job EXCEPT !.pc = "trigger", !.tag = ""]
    ELSE [job EXCEPT !.pc = "write", !.wpool = Len(pools)]

\* The write loop of a tier whose trigger has run.
StartWrite(job) ==
    IF Len(pools) = 0 THEN [job EXCEPT !.pc = "trigger", !.tag = ""]
    ELSE [job EXCEPT !.pc = "write", !.wpool = 1]

\* A FrequentJob that goes on to the hourly tier, which C13 rules out.
EnforceReturnHourly(job) ==
    CASE job.tag = "frequent" -> StartEnforce(job, "hourly")
      [] job.tag = "hourly" /\ job.kind = "frequent" ->
            [job EXCEPT !.pc = "return"]
      [] job.tag = "hourly" -> StartRead(job)
      [] OTHER -> StartWrite(job)

\* Enforce returns to its caller: FrequentJob, RegularJob or a TriggerFn.
EnforceReturn(job) ==
    CASE job.tag = "frequent" /\ job.kind = "frequent" ->
            [job EXCEPT !.pc = "return"]
      [] job.tag = "frequent" /\ job.kind = "regular" ->
            StartEnforce(job, "hourly")
      [] job.tag = "hourly" -> StartRead(job)
      [] OTHER -> StartWrite(job)

RECURSIVE Settle(_)
\* The job runs on to its next storage adapter call, to the choice of its
\* next trigger, or to its return (wg.Done).
Settle(job) ==
    CASE job.pc = "enforce" /\ job.cur = NoTarget
                            /\ Enabled(job.todo, job.tag) = {} ->
            Settle(EnforceReturn([job EXCEPT !.todo = {}]))
      [] job.pc = "trigger" /\ job.ttodo = {} -> Idle
      [] job.pc = "return" -> Idle
      [] OTHER -> job

\* The pass over target job.cur ends: the loop moves on.
EndPass(job) ==
    Settle([job EXCEPT !.todo = job.todo \ {job.cur}, !.cur = NoTarget,
                       !.pending = <<>>])

\* The calendar Enforce a step has brought to its return, if any.
Returned(before, after) ==
    IF before.pc = "enforce" /\ before.tag \in CalTiers
                             /\ ~(after.pc = "enforce"
                                   /\ after.tag = before.tag)
    THEN {<<before.tag, before.tick>>}
    ELSE {}

\* What a finished job reports.
FinOf(before, after) ==
    IF after.kind = "none"
    THEN [kind |-> before.kind, tick |-> before.tick]
    ELSE NoFin

PassOf(j, job, t, info) ==
    [job |-> j, target |-> t, tag |-> job.tag, keep |-> KeepOf(t, job.tag),
     pre |-> info.pre, new |-> info.new, del |-> info.del,
     ncreate |-> info.ncreate, nlist |-> info.nlist,
     ndestroy |-> info.ndestroy, listed |-> info.listed, lok |-> info.lok,
     clean |-> info.clean]

\* Another job changed the snapshots of `tag` on the datasets `reached`:
\* the passes of the other jobs over them are no longer undisturbed.
Disturb(js, j, reached, tag) ==
    [k \in Slots |->
        IF k # j /\ js[k].pc = "enforce" /\ js[k].tag = tag
                 /\ js[k].cur \in reached
        THEN [js[k] EXCEPT !.info.clean = FALSE]
        ELSE js[k]]

\* CreateSnapshot(t, prefix, tag, localTime, p.Recursive), for *keep > 0
EnforceCreate(j, t, out) ==
    LET job == jobs[j]
        tag == job.tag
        rec == PlanOf(t).Recursive
        ok == out = OK
        s == stamp[tag] + 1
        reached == Reach(policy, t, rec)
        info == [NoInfo EXCEPT !.pre = snaps[t][tag],
                               !.new = IF ok THEN s ELSE 0,
                               !.ncreate = 1]
        job2 == [job EXCEPT !.cur = t, !.info = info]
    IN  /\ Alive
        /\ Returns(out)
        /\ job.pc = "enforce"
        /\ job.cur = NoTarget
        /\ t \in Enabled(job.todo, tag)
        /\ KeepPositive(KeepOf(t, tag))
        /\ snaps' = IF ok
                    THEN [u \in DOMAIN snaps |->
                            IF u \in reached
                            THEN [snaps[u] EXCEPT ![tag] = @ \cup {s}]
                            ELSE snaps[u]]
                    ELSE snaps
        /\ stamp' = IF ok THEN [stamp EXCEPT ![tag] = s] ELSE stamp
        /\ jobs' = IF ok
                   THEN Disturb([jobs EXCEPT ![j] = job2], j, reached, tag)
                   ELSE [jobs EXCEPT ![j] = job2]
        /\ journal' = Event("ETCreateSnapshot", t, tag, rec,
                            ErrOf(CreateErr(out), out))
        /\ ev' = Quiet
        /\ UNCHANGED <<spawns, hist, policy, pools, zone, ticker, proc,
                       shutdown, props>>

\* What is known of a job whose calendar Enforce stops in a panic: the
\* tier, the job's tick and effective last run, and the properties and the
\* writes done as they are when it stops.
Halt(job) ==
    IF job.tag \in CalTiers
    THEN {[tier |-> job.tag, tick |-> job.tick, lrt |-> job.lrt[job.tag],
           stored |-> [p \in DOMAIN props |-> props[p][job.tag]],
           written |-> written]}
    ELSE {}

\* ListSnapshotNames(t, s.matcher[tag]) and what follows it up to the first
\* DestroySnapshot
EnforceList(j, t, out) ==
    LET job == jobs[j]
        tag == job.tag
        keep == KeepOf(t, tag)
        first == job.cur = NoTarget
        base == IF first THEN [NoInfo EXCEPT !.pre = snaps[t][tag]]
                ELSE job.info
        names == SortDesc(snaps[t][tag])
        info == [base EXCEPT !.nlist = @ + 1, !.clean = @ /\ out = OK,
                             !.listed = IF out = OK THEN names ELSE <<>>,
                             !.lok = out = OK]
        job2 == [job EXCEPT !.cur = t, !.info = info]
        over == out # OK \/ NothingToPrune(names, keep)
        job3 == IF over THEN EndPass(job2)
                ELSE [job2 EXCEPT !.pending = PruneList(names, keep)]
        panic == out = OK /\ ~NothingToPrune(names, keep)
                          /\ SlicePanics(names, keep)
    IN  /\ Alive
        /\ Returns(out)
        /\ job.pc = "enforce"
        /\ \/ job.cur = t /\ job.pending = <<>>
           \/ /\ first
              /\ t \in Enabled(job.todo, tag)
              /\ ~KeepPositive(keep)
        /\ journal' = Event("ETListSnapshotNames", t, tag, FALSE,
                            ErrOf(ListErr(out), out))
        /\ IF panic
           THEN /\ proc' = "crashed"
                /\ jobs' = [jobs EXCEPT ![j] = job2]
                /\ enforced' = enforced
                /\ halted' = halted \cup Halt(job2)
                /\ ev' = Quiet
           ELSE /\ proc' = proc
                /\ halted' = halted
                /\ jobs' = [jobs EXCEPT ![j] = job3]
                /\ enforced' = enforced \cup Returned(job, job3)
                /\ ev' = [Quiet EXCEPT
                            !.pass = IF over THEN PassOf(j, job, t, info)
                                     ELSE NoPass,
                            !.fin = FinOf(job, job3)]
        /\ botched' = IF out = OK THEN botched
                      ELSE botched \cup {<<t, tag>>}
        /\ UNCHANGED <<spawns, written, tried, overlap, policy, pools, zone, ticker,
                       shutdown, snaps, stamp, props>>

\* The range loop stopped by the first error, which C17 rules out.
RemainingUntilError(pending, text) ==
    IF text = OK THEN Tail(pending) ELSE <<>>

\* What the range over names[int(*keep):] has ahead after a destroy that
\* ended with `text`: the error is logged and emitted, the loop goes on.
Remaining(pending, text) == Tail(pending)

\* DestroySnapshot(t, n, p.Recursive) for the next n of names[int(*keep):]
EnforceDestroy(j, out) ==
    LET job == jobs[j]
        tag == job.tag
        t == job.cur
        rec == PlanOf(t).Recursive
        n == Head(job.pending)
        text == IF out = OK /\ n \notin snaps[t][tag] THEN NotFoundText
                ELSE out
        ok == text = OK
        reached == Reach(policy, t, rec)
        info == [job.info EXCEPT !.del = IF ok THEN Append(@, n) ELSE @,
                                 !.ndestroy = @ + 1,
                                 !.clean = @ /\ ok]
        rest == Remaining(job.pending, text)
        last == rest = <<>>
        job2 == [job EXCEPT !.pending = rest, !.info = info]
        job3 == IF last THEN EndPass(job2) ELSE job2
    IN  /\ Alive
        /\ Returns(out)
        /\ job.pc = "enforce"
        /\ job.pending # <<>>
        /\ snaps' = IF ok
                    THEN [u \in DOMAIN snaps |->
                            IF u \in reached
                            THEN [snaps[u] EXCEPT ![tag] = @ \ {n}]
                            ELSE snaps[u]]
                    ELSE snaps
        /\ jobs' = IF ok
                   THEN Disturb([jobs EXCEPT ![j] = job3], j, reached, tag)
                   ELSE [jobs EXCEPT ![j] = job3]
        /\ journal' = Event("ETDestroySnapshot", t, tag, rec,
                            ErrOf(DestroyErr(text), text))
        /\ ev' = [Quiet EXCEPT
                    !.pass = IF last THEN PassOf(j, job, t, info) ELSE NoPass,
                    !.fin = FinOf(job, job3)]
        /\ enforced' = enforced \cup Returned(job, job3)
        /\ botched' = IF out # OK /\ n \in snaps[t][tag]
                      THEN botched \cup {<<t, tag>>}
                      ELSE botched
        /\ UNCHANGED <<spawns, written, tried, overlap, halted, policy, pools,
                       zone, ticker, proc, shutdown, stamp, props>>

----------------------------------------------------------------------------
(* Service.RegularJob: the tier triggers and the pool properties.          *)

\* "daily" with && for ||, which C8 rules out.
DayChangedBoth(tick, lrt, off) ==
    /\ Year(tick, off) # Year(lrt, off)
    /\ YearDay(tick, off) # YearDay(lrt, off)

\* "daily" only for a last run less than two days old, which C20 rules
\* out: an older last run does not fire where a newer one does.
DayChangedRecent(tick, lrt, off) ==
    /\ tick - lrt < 2 * 86400
    /\ \/ Year(tick, off) # Year(lrt, off)
       \/ YearDay(tick, off) # YearDay(lrt, off)

\* "daily": year != t.Year() || yearDay != t.YearDay(), t := time.Unix(lrt, 0)
DayChanged(tick, lrt, off) ==
    \/ Year(tick, off) # Year(lrt, off)
    \/ YearDay(tick, off) # YearDay(lrt, off)

\* "weekly": weekYear != tWeekYear || week != tWeek
WeekChanged(tick, lrt, off) ==
    \/ ISOWeek(tick, off)[1] # ISOWeek(lrt, off)[1]
    \/ ISOWeek(tick, off)[2] # ISOWeek(lrt, off)[2]

\* "monthly": year != t.Year() || month != t.Month()
MonthChanged(tick, lrt, off) ==
    \/ Year(tick, off) # Year(lrt, off)
    \/ Month(tick, off) # Month(lrt, off)

\* The triggers with the weekly condition on the daily tier, which C10
\* rules out: a new day of the same week is missed.
TriggerFnWeekly(tier, tick, lrt, off) ==
    CASE tier = "daily" -> WeekChanged(tick, lrt, off)
      [] tier = "weekly" -> WeekChanged(tick, lrt, off)
      [] tier = "monthly" -> MonthChanged(tick, lrt, off)

\* Triggers that fire at every regular tick, which C19 rules out.
TriggerFnAlways(tier, tick, lrt, off) == TRUE

\* jobsByTag[tier].TriggerFn(lrt), without the Enforce it runs
TriggerFn(tier, tick, lrt, off) ==
    CASE tier = "daily" -> DayChanged(tick, lrt, off)
      [] tier = "weekly" -> WeekChanged(tick, lrt, off)
      [] tier = "monthly" -> MonthChanged(tick, lrt, off)

\* The update with < for >, which C9 rules out: the last run stays 0.
OlderOf(lrt, unixTime) == IF unixTime < lrt THEN unixTime ELSE lrt

\* The update that takes whatever was read last, which C18 rules out: the
\* last run depends on the order of the pools.
LastOf(lrt, unixTime) == unixTime

\* if unixTime > job.LastRunTimestamp { job.LastRunTimestamp = unixTime }
NewerOf(lrt, unixTime) == IF unixTime > lrt THEN unixTime ELSE lrt

\* GetPoolProperty(p, key) for the next tier of the loop over jobsByTag
RegularGet(j, tier, out) ==
    LET job == jobs[j]
        p == pools[job.rpool]
        parsed == ParseInt(props[p][tier])
        lrt2 == IF out = OK /\ parsed.ok
                THEN [job.lrt EXCEPT ![tier] = NewerOf(@, parsed.value)]
                ELSE job.lrt
        left == job.rtodo \ {tier}
        got2 == IF out = OK /\ parsed.ok
                THEN [job.seen.got EXCEPT
                        ![tier] = @ \cup {<<p, parsed.value>>}]
                ELSE job.seen.got
        job2 == [job EXCEPT !.lrt = lrt2, !.rtodo = left, !.seen.got = got2]
        job3 == CASE left # {} -> job2
                  [] left = {} /\ job.rpool < Len(pools) ->
                        [job2 EXCEPT !.rpool = @ + 1, !.rtodo = CalTiers]
                  [] OTHER -> [job2 EXCEPT !.pc = "trigger",
                                           !.ttodo = CalTiers]
    IN  /\ Alive
        /\ Returns(out)
        /\ job.pc = "read"
        /\ tier \in job.rtodo
        /\ jobs' = [jobs EXCEPT ![j] = job3]
        /\ journal' = Event("ETGetPoolProperty", p, tier, FALSE,
                            ErrOf(GetErr(out), out))
        /\ ev' = Quiet
        /\ UNCHANGED <<spawns, hist, policy, pools, zone, ticker, proc,
                       shutdown, snaps, stamp, props>>

\* job.TriggerFn(job.LastRunTimestamp) for the next tier of the second loop
\* over jobsByTag, up to the first adapter call it leads to
RegularTrigger(j, tier) ==
    LET job == jobs[j]
        jobRan == TriggerFn(tier, job.tick, job.lrt[tier], zone)
        job2 == [job EXCEPT !.ttodo = @ \ {tier}]
        job3 == IF jobRan THEN Settle(StartEnforce(job2, tier))
                ELSE Settle(job2)
    IN  /\ Alive
        /\ job.pc = "trigger"
        /\ tier \in job.ttodo
        /\ jobs' = [jobs EXCEPT ![j] = job3]
        /\ ev' = [Quiet EXCEPT
                    !.trig = [tier |-> tier, tick |-> job.tick,
                              lrt |-> job.lrt[tier], fired |-> jobRan,
                              ran |-> job.seen.ran,
                              got |-> job.seen.got[tier],
                              prior |-> job.seen.prior],
                    !.fin = FinOf(job, job3)]
        /\ enforced' = IF jobRan
                       THEN enforced
                            \cup Returned(StartEnforce(job2, tier), job3)
                       ELSE enforced
        /\ UNCHANGED <<spawns, faults, written, tried, overlap, botched, halted,
                       policy,
                       pools, zone,
                       ticker, proc, shutdown, snaps, stamp, props, journal>>

\* SetPoolProperty(p, key, tickValue) for the next pool
RegularSet(j, out) ==
    LET job == jobs[j]
        p == pools[job.wpool]
        tier == job.tag
        job2 == IF job.wpool < Len(pools) THEN [job EXCEPT !.wpool = @ + 1]
                ELSE Settle([job EXCEPT !.pc = "trigger", !.tag = ""])
    IN  /\ Alive
        /\ Returns(out)
        /\ job.pc = "write"
        /\ props' = IF out = OK
                    THEN [props EXCEPT ![p][tier] = FormatInt(job.tick)]
                    ELSE props
        /\ jobs' = [jobs EXCEPT ![j] = job2]
        /\ journal' = Event("ETSetPoolProperty", p, tier, FALSE,
                            ErrOf(SetErr(out), out))
        /\ written' = IF out = OK
                      THEN written \cup {<<tier, job.tick, p>>}
                      ELSE written
        /\ tried' = tried \cup {<<tier, job.tick, p>>}
        /\ ev' = [Quiet EXCEPT !.fin = FinOf(job, job2)]
        /\ UNCHANGED <<spawns, enforced, overlap, botched, halted, policy, pools,
                       zone,
                       ticker,
                       proc, shutdown, snaps, stamp>>

----------------------------------------------------------------------------
(* main: the scheduler loop.                                               *)

\* The switch with minute 0 in the case of the quarters, which C5 rules
\* out: no regular job is ever spawned.
DispatchQuarters(minute) ==
    CASE minute \in {0, 15, 30, 45} -> "frequent"
      [] OTHER -> "none"

\* switch t.Minute()
Dispatch(minute) ==
    CASE minute = 0 -> "regular"
      [] minute \in {15, 30, 45} -> "frequent"
      [] OTHER -> "none"

\* go func() { defer wg.Done(); service.RegularJob(t) }() and the like, up
\* to the job's first adapter call
Spawned(kind, t) ==
    Settle(StartEnforce([Idle EXCEPT !.kind = kind,
                                     !.tick = IF kind = "regular" THEN t
                                              ELSE 0,
                                     !.seen.prior = IF kind = "regular"
                                                    THEN written ELSE {}],
                        "frequent"))

FreeSlots == {j \in Slots : jobs[j].kind = "none"}

RegularInFlight == \E j \in Slots : jobs[j].kind = "regular"

\* case t := <-ticker.C
MainTick(i) ==
    LET t == ticker[i]
        kind == Dispatch(MinuteOf(t, zone))
        j == CHOOSE f \in FreeSlots : \A g \in FreeSlots : f <= g
    IN  /\ proc = "running"
        /\ i \in 1..Len(ticker)
        /\ ticker' = SubSeq(ticker, i + 1, Len(ticker))
        /\ IF kind = "none"
           THEN /\ jobs' = jobs
                /\ spawns' = spawns
                /\ overlap' = overlap
                /\ ev' = [Quiet EXCEPT !.spawn = [kind |-> "none", tick |-> t,
                                                  slots |-> {}]]
           ELSE /\ FreeSlots # {}
                /\ spawns > 0
                /\ spawns' = spawns - 1
                /\ jobs' = [jobs EXCEPT ![j] = Spawned(kind, t)]
                /\ overlap' = (overlap \/ (kind = "regular"
                                            /\ RegularInFlight))
                /\ ev' = [Quiet EXCEPT
                            !.spawn = [kind |-> kind, tick |-> t,
                                       slots |-> {j}],
                            !.fin = FinOf([kind |-> kind, tick |-> t],
                                          Spawned(kind, t))]
        /\ UNCHANGED <<faults, written, tried, enforced, botched, halted, policy,
                       pools,
                       zone, proc,
                       shutdown, snaps, stamp, props, journal>>

\* case <-shutdown, up to wg.Wait()
MainShutdown ==
    /\ proc = "running"
    /\ shutdown
    /\ proc' = "waiting"
    /\ shutdown' = FALSE
    /\ ev' = Quiet
    /\ UNCHANGED <<spawns, faults, hist, policy, pools, zone, ticker, jobs,
                   snaps, stamp, props, journal>>

\* wg.Wait() returns and main returns
MainExit ==
    /\ proc = "waiting"
    /\ \A j \in Slots : jobs[j].kind = "none"
    /\ proc' = "exited"
    /\ ev' = Quiet
    /\ UNCHANGED <<spawns, faults, hist, policy, pools, zone, ticker, shutdown,
                   jobs, snaps, stamp, props, journal>>

\* SIGHUP, SIGINT or SIGTERM is delivered to the channel of capacity 1. A
\* signal that arrives after the loop has left for wg.Wait() is buffered
\* and never received: it changes nothing the program does.
Signal ==
    /\ proc = "running"
    /\ ~shutdown
    /\ shutdown' = TRUE
    /\ ev' = Quiet
    /\ UNCHANGED <<spawns, faults, hist, policy, pools, zone, ticker, proc,
                   jobs,
                   snaps, stamp, props, journal>>

\* The daemon is started again on the same host: NewService, no job in
\* flight, the snapshots and pool properties as the last run left them.
Restart ==
    /\ proc \in {"exited", "crashed"}
    /\ proc' = "running"
    /\ shutdown' = FALSE
    /\ jobs' = [j \in Slots |-> Idle]
    /\ pools' \in PoolOrders(policy)
    /\ ev' = Quiet
    /\ UNCHANGED <<spawns, faults, hist, policy, zone, ticker, snaps, stamp,
                   props, journal>>

Next ==
    \/ \E i \in DOMAIN ticker : MainTick(i)
    \/ MainShutdown
    \/ MainExit
    \/ Signal
    \/ Restart
    \/ \E j \in Slots, t \in TargetsOf(policy), out \in Outcomes :
            EnforceCreate(j, t, out)
    \/ \E j \in Slots, t \in TargetsOf(policy), out \in Outcomes :
            EnforceList(j, t, out)
    \/ \E j \in Slots, out \in Outcomes : EnforceDestroy(j, out)
    \/ \E j \in Slots, tier \in CalTiers, out \in Outcomes :
            RegularGet(j, tier, out)
    \/ \E j \in Slots, tier \in CalTiers : RegularTrigger(j, tier)
    \/ \E j \in Slots, out \in Outcomes : RegularSet(j, out)

Spec == Init /\ [][Next]_vars

\* The turn of a year on a host five hours west of UTC: regular ticks on
\* both sides of the change of day, ISO week, month and year.
InitCalTicks == <<Sun2200, Wed0300, Wed0400, Wed0500>>

InitCal ==
    Start({PolicyPools}, {-18000}, InitCalTicks,
          CalJobs, CalSpawns, CalFaults)

SpecCal == InitCal /\ [][Next]_vars

\* Two regular jobs, of a Sunday evening and of the Wednesday after it in
\* the next year, that can be in flight at once: the first one is still
\* running when the second one is spawned, or has returned.
InitRace ==
    Start({PolicyOne}, {0}, <<Sun2200, Wed0300>>,
          MaxJobs, MaxSpawns, RaceFaults)

SpecRace == InitRace /\ [][Next]_vars

\* One regular job over two targets of one tier, with two failing calls.
PassJobs == 1
PassSpawns == 1
PassFaults == 2

InitPass ==
    Start({PolicyTwo}, {0}, <<Sun2200>>, PassJobs, PassSpawns, PassFaults)

SpecPass == InitPass /\ [][Next]_vars

\* What a pool property can hold when the daemon starts: nothing, the empty
\* text, text that is no number, the times of earlier runs, and a time
\* before 1970, which zpool set accepts like any other text.
StoredTexts ==
    {Unset, <<>>, <<"1", "x">>, <<"-", "5">>,
     FormatInt(Sun2200), FormatInt(Wed0300 - 3600)}

ReadJobs == 1
ReadSpawns == 1
ReadFaults == 1

\* One regular job over two pools whose properties hold any of these texts,
\* the same for the three tiers of a pool; an earlier run has left a daily
\* snapshot.
InitRead ==
    /\ policy = PolicyPools
    /\ pools \in PoolOrders(policy)
    /\ zone = 0
    /\ ticker = <<Wed0300>>
    /\ proc = "running"
    /\ shutdown = FALSE
    /\ jobs = [j \in 1..ReadJobs |-> Idle]
    /\ snaps = [InitSnaps(policy) EXCEPT ![TX]["daily"] = {1}]
    /\ stamp = [InitStamp EXCEPT !["daily"] = 1]
    /\ props \in {[p \in ExtractPools(policy) |-> [c \in CalTiers |-> f[p]]] :
                      f \in [ExtractPools(policy) -> StoredTexts]}
    /\ journal = NoEvent
    /\ spawns = ReadSpawns
    /\ faults = ReadFaults
    /\ written = {}
    /\ tried = {}
    /\ enforced = {}
    /\ overlap = FALSE
    /\ botched = {}
    /\ halted = {}
    /\ ev = Quiet

SpecRead == InitRead /\ [][Next]_vars

StopJobs == 1
StopSpawns == 2
StopFaults == 1

\* Two regular jobs, one after the other, at two of three hours around
\* midnight, over two pools: the property of x's pool is unset and that of
\* z's pool is unset or holds the time of a run of 02:00; a daily snapshot
\* exists on z.  The daily Enforce panics on x unless its list fails.
InitStop ==
    /\ policy = PolicyStop
    /\ pools \in PoolOrders(policy)
    /\ zone = 0
    /\ ticker = <<Tue2300, Wed0300, Wed0400>>
    /\ proc = "running"
    /\ shutdown = FALSE
    /\ jobs = [j \in 1..StopJobs |-> Idle]
    /\ snaps = [InitSnaps(policy) EXCEPT ![TZ]["daily"] = {1}]
    /\ stamp = [InitStamp EXCEPT !["daily"] = 1]
    /\ props \in {[p \in ExtractPools(policy) |->
                      [c \in CalTiers |-> IF p = TZ[1] THEN x ELSE Unset]] :
                      x \in {Unset, FormatInt(Wed0300 - 3600)}}
    /\ journal = NoEvent
    /\ spawns = StopSpawns
    /\ faults = StopFaults
    /\ written = {}
    /\ tried = {}
    /\ enforced = {}
    /\ overlap = FALSE
    /\ botched = {}
    /\ halted = {}
    /\ ev = Quiet

SpecStop == InitStop /\ [][Next]_vars

\* Three regular jobs of one day, week and month, one after the other, over
\* one pool, with two failing calls.
LostJobs == 1
LostSpawns == 3
LostFaults == 2

InitLost ==
    Start({PolicyOne}, {0}, <<Wed0300, Wed0400, Wed0500>>,
          LostJobs, LostSpawns, LostFaults)

SpecLost == InitLost /\ [][Next]_vars

\* Last runs a pool can hold at the tick of Wed 03:00:07Z: none, three days,
\* one day and one hour before the tick, and, written by a host whose clock
\* is ahead, two hours, one day, one week and forty days after it.
LastRuns ==
    {0, Sun2200, Wed0300 - 86400, Wed0300 - 3600, Wed0500,
     Wed0300 + 86400, Wed0300 + 7 * 86400, Wed0300 + 40 * 86400}

TrigJobs == 1
TrigSpawns == 1
TrigFaults == 1

\* One regular job over one pool that holds one of these last runs, on a
\* host in UTC or five hours west of it; an earlier run has left a daily
\* snapshot.
InitTrig ==
    /\ policy = PolicyOne
    /\ pools \in PoolOrders(policy)
    /\ zone \in {0, -18000}
    /\ ticker = <<Wed0300>>
    /\ proc = "running"
    /\ shutdown = FALSE
    /\ jobs = [j \in 1..TrigJobs |-> Idle]
    /\ snaps = [InitSnaps(policy) EXCEPT ![TX]["daily"] = {1}]
    /\ stamp = [InitStamp EXCEPT !["daily"] = 1]
    /\ props \in {[p \in ExtractPools(policy) |->
                      [c \in CalTiers |-> FormatInt(l)]] : l \in LastRuns}
    /\ journal = NoEvent
    /\ spawns = TrigSpawns
    /\ faults = TrigFaults
    /\ written = {}
    /\ tried = {}
    /\ enforced = {}
    /\ overlap = FALSE
    /\ botched = {}
    /\ halted = {}
    /\ ev = Quiet

SpecTrig == InitTrig /\ [][Next]_vars

\* A regular job and the frequent job of the next quarter over two nested
\* targets of the frequent tier.
BoundJobs == 2
BoundSpawns == 2
BoundFaults == 0

InitBound ==
    Start({PolicyNest}, {0}, <<Sun2200, Sun2215>>,
          BoundJobs, BoundSpawns, BoundFaults)

SpecBound == InitBound /\ [][Next]_vars

----------------------------------------------------------------------------
(* LoadPolicy and the pool property key, from the start of main.           *)

\* the code points of the runes the prefixes below are made of
Rune ==
    ("_" :> 95) @@ ("a" :> 97) @@ ("d" :> 100) @@ ("e" :> 101)
    @@ ("k" :> 107) @@ ("p" :> 112) @@ ("z" :> 122) @@ ("{" :> 123)

\* The checks of LoadPolicy on the decoded prefix: the error, or OK. The
\* policies here have no groups, so the flattening adds no target.
LoadPolicy(p) ==
    IF p.Prefix = <<>> THEN "prefix is not specified"
    ELSE IF \E i \in DOMAIN p.Prefix :
                Rune[p.Prefix[i]] < Rune["a"] \/ Rune[p.Prefix[i]] > Rune["z"]
         THEN "prefix contains forbidden characters (not a-z)"
         ELSE OK

\* the tier tags as text
TagText ==
    ("frequent" :> <<"f", "r", "e", "q", "u", "e", "n", "t">>)
    @@ ("hourly" :> <<"h", "o", "u", "r", "l", "y">>)
    @@ ("daily" :> <<"d", "a", "i", "l", "y">>)
    @@ ("weekly" :> <<"w", "e", "e", "k", "l", "y">>)
    @@ ("monthly" :> <<"m", "o", "n", "t", "h", "l", "y">>)

\* fmt.Sprintf(keyFormat, t) with keyFormat "org.keepd:last%sjob"
keyFormat(t) ==
    <<"o", "r", "g", ".", "k", "e", "e", "p", "d", ":", "l", "a", "s", "t">>
    \o TagText[t] \o <<"j", "o", "b">>

\* n times the rune r
Repeat(r, n) == [i \in 1..n |-> r]

\* Prefixes of length 0, 1, 2 and 4, and on both sides of 32 runes; the
\* last rune is a letter or a rune on either side of a-z.
LongPrefix == 32
LastRunes == {"a", "k", "z", "_", "{"}
Prefixes ==
    {<<>>, <<"k", "d">>, <<"k", "e", "e", "p">>}
    \cup {<<r>> : r \in LastRunes}
    \cup {Repeat("a", n) \o <<r>> :
              n \in {LongPrefix - 2, LongPrefix - 1, LongPrefix},
              r \in LastRunes}

LoadJobs == 1
LoadSpawns == 1
LoadFaults == 1

\* main before LoadPolicy: the policy file is decoded, nothing else is built.
InitLoad ==
    /\ policy \in {[Prefix |-> x, Targets |-> PolicySmall.Targets] :
                       x \in Prefixes}
    /\ pools \in PoolOrders(policy)
    /\ zone = 0
    /\ ticker = <<Wed0300>>
    /\ proc = "loading"
    /\ shutdown = FALSE
    /\ jobs = [j \in 1..LoadJobs |-> Idle]
    /\ snaps = InitSnaps(policy)
    /\ stamp = InitStamp
    /\ props = [p \in ExtractPools(policy) |-> [c \in CalTiers |-> Unset]]
    /\ journal = NoEvent
    /\ spawns = LoadSpawns
    /\ faults = LoadFaults
    /\ written = {}
    /\ tried = {}
    /\ enforced = {}
    /\ overlap = FALSE
    /\ botched = {}
    /\ halted = {}
    /\ ev = Quiet

\* policy, err := LoadPolicy(*policyPath); log.Fatal on an error
MainLoad ==
    /\ proc = "loading"
    /\ proc' = IF LoadPolicy(policy) = OK THEN "running" ELSE "failed"
    /\ ev' = Quiet
    /\ UNCHANGED <<spawns, faults, hist, policy, pools, zone, ticker, shutdown,
                   jobs, snaps, stamp, props, journal>>

NextLoad == MainLoad \/ Next

SpecLoad == InitLoad /\ [][NextLoad]_vars

----------------------------------------------------------------------------
(* Snapshot names: CreateSnapshot's name and NewSnapshotMatcher's patterns. *)

\* The decimal text of n in at least w digits, as the layout's 2006, 01, 02,
\* 15, 04 and 05 print it.
RECURSIVE Padded(_, _)
Padded(n, w) ==
    IF Len(FormatNat(n)) >= w THEN FormatNat(n)
    ELSE <<"0">> \o Padded(n, w - 1)

\* Time.Day(), Time.Hour(), Time.Second()
DayOfMonth(sec, off) ==
    YearDay(sec, off) - DaysBeforeMonth(Year(sec, off), Month(sec, off))
HourOf(sec, off) == ((sec + off) % 86400) \div 3600
SecondOf(sec, off) == (sec + off) % 60

\* t.Format("2006-01-02.15:04:05")
FormatTime(sec, off) ==
    Padded(Year(sec, off), 4) \o <<"-">> \o Padded(Month(sec, off), 2)
    \o <<"-">> \o Padded(DayOfMonth(sec, off), 2) \o <<".">>
    \o Padded(HourOf(sec, off), 2) \o <<":">>
    \o Padded(MinuteOf(sec, off), 2) \o <<":">>
    \o Padded(SecondOf(sec, off), 2)

\* name := fmt.Sprintf("%s.%s.%s", prefix, f, tag)
SnapshotName(prefix, sec, off, tag) ==
    prefix \o <<".">> \o FormatTime(sec, off) \o <<".">> \o TagText[tag]

\* A line of `zfs list -o name -t snapshot`: dataset@name
RECURSIVE PathText(_)
PathText(t) ==
    IF Len(t) = 1 THEN <<t[1]>>
    ELSE PathText(SubSeq(t, 1, Len(t) - 1)) \o <<"/", t[Len(t)]>>

ListLine(t, name) == PathText(t) \o <<"@">> \o name

\* \d{4}-\d{2}-\d{2}\.\d{2}:\d{2}:\d{2}
DateTimePattern(s) ==
    /\ Len(s) = 19
    /\ \A i \in 1..19 :
          CASE i \in {5, 8} -> s[i] = "-"
            [] i = 11 -> s[i] = "."
            [] i \in {14, 17} -> s[i] = ":"
            [] OTHER -> s[i] \in DigitChars

\* The one match of (?m)<prefix>\.<date and time>\.<text>$ on a line, if
\* any: the pattern has one length and ends at the end of the line, so
\* only the line's end of that length can match.
MatchEnd(prefix, text, line) ==
    LET len == Len(prefix) + 21 + Len(text)
        from == Len(line) - len + 1
        m == SubSeq(line, from, Len(line))
    IN  IF from >= 1 /\ SubSeq(m, 1, Len(prefix)) = prefix
             /\ m[Len(prefix) + 1] = "."
             /\ DateTimePattern(SubSeq(m, Len(prefix) + 2, Len(prefix) + 20))
             /\ m[Len(prefix) + 21] = "."
             /\ SubSeq(m, Len(prefix) + 22, len) = text
        THEN {m}
        ELSE {}

\* A matcher that takes the tag of any tier, which C23 rules out: the
\* list of a tier holds the names of the other tiers too.
FindAllAnyTag(prefix, tag, line) ==
    UNION {MatchEnd(prefix, TagText[g], line) : g \in DOMAIN TagText}

\* s.matcher[tag].FindAll on one line, for the pattern
\* (?m)<prefix>\.<date and time>\.<tag>$ of NewSnapshotMatcher
FindAll(prefix, tag, line) == MatchEnd(prefix, TagText[tag], line)

\* A step of job j: its next storage adapter call returns, with whatever
\* outcome, or its next trigger is evaluated.
JobStep(j) ==
    \/ \E t \in TargetsOf(policy), out \in Outcomes : EnforceCreate(j, t, out)
    \/ \E t \in TargetsOf(policy), out \in Outcomes : EnforceList(j, t, out)
    \/ \E out \in Outcomes : EnforceDestroy(j, out)
    \/ \E tier \in CalTiers, out \in Outcomes : RegularGet(j, tier, out)
    \/ \E tier \in CalTiers : RegularTrigger(j, tier)
    \/ \E out \in Outcomes : RegularSet(j, out)

\* The Go scheduler runs every goroutine that can run: the loop receives a
\* pending signal and returns from wg.Wait(), and every adapter call of a
\* job returns.  Nothing makes a tick or a signal arrive, or restarts the
\* daemon.
Fairness ==
    /\ WF_vars(MainShutdown)
    /\ WF_vars(MainExit)
    /\ \A j \in 1..MaxJobs : WF_vars(JobStep(j))

\* A regular job at the top of the hour and a signal, under the policy with
\* the largest keep count.
InitDrain ==
    Start({PolicyLarge}, {0}, <<Sun2200, Sun2215>>,
          MaxJobs, MaxSpawns, MaxFaults)

SpecDrain == InitDrain /\ [][Next]_vars /\ Fairness

----------------------------------------------------------------------------
(* Retention.                                                              *)

\* The keep count the policy file gives target t for a tier, Nil if none.
Configured(t, tag) == policy.Targets[t].Keep[tag]

\* n <= keep, for a keep count read as the unsigned integer it is
AtMostKeep(n, k) == n <= SmallValue(k)

\* A pass over a target ended in the last step, with every list and destroy
\* call successful and no other job changing the snapshots it worked on.
CleanPass == ev.pass.job # 0 /\ ev.pass.clean

\* The d oldest stamps of S, newest first.
Oldest(S, d) == SubSeq(SortDesc(S), Cardinality(S) - d + 1, Cardinality(S))

Max0(n) == IF n > 0 THEN n ELSE 0

\* C1: when the pass of Enforce over a target ends with no list or destroy
\* error and no other job has changed the target's snapshots of the tier
\* meanwhile, the target holds at most keep snapshots of the tier.
C1_RetentionBound ==
    CleanPass =>
        AtMostKeep(Cardinality(snaps[ev.pass.target][ev.pass.tag]),
                   Configured(ev.pass.target, ev.pass.tag))

\* A clean pass that had to destroy two snapshots to get down to keep = 2.
C1_Witness ==
    /\ CleanPass
    /\ Configured(ev.pass.target, ev.pass.tag) = Uint(2)
    /\ Len(ev.pass.del) = 2
    /\ Cardinality(snaps[ev.pass.target][ev.pass.tag]) = 2

\* C2: for keep > 0 and n snapshots found, an undisturbed pass whose calls
\* all succeed makes one create call, then destroys max(0, n + 1 - keep)
\* snapshots, the oldest ones, in the order of the list (newest of them
\* first); what is left is the new snapshot and the keep - 1 newest old ones.
C2_NewestSurvive ==
    (CleanPass /\ KeepPositive(Configured(ev.pass.target, ev.pass.tag))
               /\ ev.pass.new # 0) =>
        LET P == ev.pass
            k == SmallValue(Configured(P.target, P.tag))
            all == P.pre \cup {P.new}
            d == Max0(Cardinality(P.pre) + 1 - k)
        IN  /\ P.ncreate = 1
            /\ P.new \notin P.pre
            /\ P.ndestroy = d
            /\ P.del = Oldest(all, d)
            /\ snaps[P.target][P.tag] = all \ SeqToSet(P.del)
            /\ P.new \in snaps[P.target][P.tag]
            /\ \A s \in SeqToSet(P.del), u \in snaps[P.target][P.tag] : s < u

\* Three snapshots found, keep = 2: a fourth is created and the two oldest
\* are destroyed.
C2_Witness ==
    /\ CleanPass
    /\ ev.pass.new # 0
    /\ Configured(ev.pass.target, ev.pass.tag) = Uint(2)
    /\ Cardinality(ev.pass.pre) = 3
    /\ Len(ev.pass.del) = 2

\* C3: for keep = 0 a pass makes no create call, lists once, and destroys
\* every snapshot found; with no error and undisturbed, none is left.
C3_KeepZero ==
    (ev.pass.job # 0 /\ Configured(ev.pass.target, ev.pass.tag) = Uint(0)) =>
        /\ ev.pass.ncreate = 0
        /\ ev.pass.new = 0
        /\ ev.pass.nlist = 1
        /\ ev.pass.clean =>
              /\ ev.pass.del = SortDesc(ev.pass.pre)
              /\ snaps[ev.pass.target][ev.pass.tag] = {}

\* A clean keep = 0 pass that found two snapshots.
C3_Witness ==
    /\ CleanPass
    /\ Configured(ev.pass.target, ev.pass.tag) = Uint(0)
    /\ Cardinality(ev.pass.pre) = 2
    /\ snaps[ev.pass.target][ev.pass.tag] = {}

SnapshotEvents ==
    {"ETCreateSnapshot", "ETListSnapshotNames", "ETDestroySnapshot"}

\* No pass is open on, and no event names, a target with no keep count for
\* the tier.
NoCallForDisabled ==
    /\ \A j \in Slots :
          jobs[j].cur # NoTarget => Configured(jobs[j].cur, jobs[j].tag) # Nil
    /\ journal.Type \in SnapshotEvents =>
          Configured(journal.Target, journal.Job) # Nil

\* The snapshots of a disabled (target, tier) change in a step only by a
\* successful recursive create or destroy on a target above it.
OnlyFromAbove ==
    \A t \in TargetsOf(policy), tag \in Tiers :
        (Configured(t, tag) = Nil /\ snaps'[t][tag] # snaps[t][tag]) =>
            /\ journal'.Type \in {"ETCreateSnapshot", "ETDestroySnapshot"}
            /\ journal'.Success
            /\ journal'.Recursive
            /\ journal'.Job = tag
            /\ journal'.Target # t
            /\ IsPrefix(journal'.Target, t)

\* C4 (as amended): for a target with no keep count for the tier, Enforce
\* makes no create, list or destroy call and appends no journal event; the
\* target's snapshots of the tier change only through a recursive create or
\* destroy issued for a target above it.
C4_DisabledTier == [](NoCallForDisabled) /\ [][OnlyFromAbove]_vars

\* C4 as stated: the snapshots of a disabled (target, tier) never change.
C4_Original ==
    [][\A t \in TargetsOf(policy), tag \in Tiers :
          Configured(t, tag) = Nil => snaps'[t][tag] = snaps[t][tag]]_vars

\* The frequent Enforce of a regular job has returned, having skipped y,
\* which has no frequent keep count, and the job is on its hourly tier.
C4_Witness ==
    \E j \in Slots :
        /\ jobs[j].kind = "regular"
        /\ jobs[j].tag = "hourly"
        /\ Configured(TY, "frequent") = Nil
        /\ journal.Job = "frequent"
        /\ journal.Target = TX

----------------------------------------------------------------------------
(* The scheduler loop.                                                     *)

\* The minute of the hour of instant sec on the host's clock.
LocalMinute(sec) == ((sec + zone) % 3600) \div 60

\* The slots a step starts a job in.
Started == {j \in Slots : jobs[j].kind = "none" /\ jobs'[j].kind # "none"}

\* A step that consumes a tick spawns the one job its minute calls for,
\* which starts with the frequent tier, or none.
TickDispatch ==
    ticker' # ticker =>
        LET t == ticker[Len(ticker) - Len(ticker')]
            m == LocalMinute(t)
            want == CASE m = 0 -> "regular"
                      [] m \in {15, 30, 45} -> "frequent"
                      [] OTHER -> "none"
        IN  IF want = "none"
            THEN spawns' = spawns /\ jobs' = jobs
            ELSE /\ spawns' = spawns - 1
                 /\ \E j \in Slots :
                       /\ Started = {j}
                       /\ jobs'[j].kind = want
                       /\ want = "regular" => jobs'[j].tick = t
                       /\ jobs'[j].pc = "enforce"
                       /\ jobs'[j].tag = "frequent"
                       /\ \A k \in Slots \ {j} : jobs'[k] = jobs[k]

\* Only a regular job, spawned at minute 0, enforces another tier than the
\* frequent one.
TierMinutes ==
    \A j \in Slots :
        /\ jobs[j].kind = "frequent" => jobs[j].tag = "frequent"
        /\ jobs[j].tag \in Tiers \ {"frequent"} =>
              jobs[j].kind = "regular" /\ LocalMinute(jobs[j].tick) = 0

\* C5: every tick the loop consumes spawns exactly one RegularJob(t) at
\* minute 0, exactly one FrequentJob at minute 15, 30 or 45 and nothing at
\* any other minute; every job starts with the frequent tier and only the
\* jobs of minute 0 go on to the hourly tier.
C5_TickDispatch == [](TierMinutes) /\ [][TickDispatch]_vars

\* The tick of 22:20 has been consumed with no job spawned, the regular job
\* of 22:00 and the frequent job of 22:15 being in flight.
C5_Witness ==
    /\ ev.spawn.kind = "none"
    /\ ev.spawn.tick = Sun2220
    /\ \E j, k \in Slots :
          /\ jobs[j].kind = "regular" /\ jobs[j].tick = Sun2200
          /\ jobs[k].kind = "frequent"

\* C6 as stated: once the loop has received a shutdown signal no job is
\* spawned, and the process leaves wg.Wait() only with every job finished.
C6_Original ==
    [][/\ proc # "running" => spawns' = spawns
       /\ (proc = "waiting" /\ proc' # "waiting") =>
             \A j \in Slots : jobs'[j].kind = "none"]_vars

\* C7 as stated: a process that waits for its jobs after a shutdown signal
\* comes to the return of main, which follows wg.Wait() and so the return
\* of every job in flight.
C7_Original == (proc = "waiting") ~> (proc = "exited")

----------------------------------------------------------------------------
(* The calendar tiers.                                                     *)

\* The month a day number lies in, months counted from March of year 0.
CivilMonth(d) ==
    LET z == d + 719468
        era == z \div 146097
        doe == z % 146097
        yoe == (doe - (doe \div 1460) + (doe \div 36524)
                    - (doe \div 146096)) \div 365
        doy == doe - (365 * yoe + (yoe \div 4) - (yoe \div 100))
    IN  (era * 400 + yoe) * 12 + ((5 * doy + 2) \div 153)

\* The calendar period of a tier that instant sec lies in, on a clock off
\* seconds ahead of UTC: the number of the day, of the week that begins on
\* Monday, of the month.
PeriodOf(tier, sec, off) ==
    LET d == (sec + off) \div 86400
    IN  CASE tier = "daily" -> d
          [] tier = "weekly" -> (d + 3) \div 7
          [] tier = "monthly" -> CivilMonth(d)

\* A trigger was evaluated in the last step.
Triggered == ev.trig.tier # ""

\* C8 (as amended): a tier fires iff the tick and the effective last run
\* lie in different periods of the tier on the host's local clock; every
\* RegularJob has entered Enforce for frequent and hourly before.
C8_CalendarGating ==
    Triggered =>
        /\ ev.trig.fired <=>
              (PeriodOf(ev.trig.tier, ev.trig.tick, zone)
                   # PeriodOf(ev.trig.tier, ev.trig.lrt, zone))
        /\ {"frequent", "hourly"} \subseteq ev.trig.ran

\* C8 as stated: the calendar fields of the last run are taken in UTC.
C8_Original ==
    Triggered =>
        /\ ev.trig.fired <=>
              (PeriodOf(ev.trig.tier, ev.trig.tick, zone)
                   # PeriodOf(ev.trig.tier, ev.trig.lrt, 0))
        /\ {"frequent", "hourly"} \subseteq ev.trig.ran

\* Five hours west of UTC the tick of 05:00Z, local midnight, fires daily
\* after a last run at 03:00Z, the same day in UTC.
C8_Witness ==
    /\ Triggered
    /\ ev.trig.tier = "daily"
    /\ zone = -18000
    /\ ev.trig.lrt = Wed0300
    /\ ev.trig.tick = Wed0500
    /\ ev.trig.fired

\* The writes of the tier of the last trigger that were done before its job
\* started, by a job whose tick lies in the same period.
PriorInPeriod ==
    {w \in ev.trig.prior :
        /\ w[1] = ev.trig.tier
        /\ PeriodOf(w[1], w[2], zone)
               = PeriodOf(w[1], ev.trig.tick, zone)}

\* C9 (as amended): a tier fired and written to a pool by a job is not
\* fired again by a job that starts later with a tick in the same period,
\* if that job reads the pool's property and no two regular jobs have been
\* in flight at once.
C9_NoRefire ==
    (Triggered /\ ~overlap) =>
        \A w \in PriorInPeriod :
            (\E g \in ev.trig.got : g[1] = w[3]) => ~ev.trig.fired

\* C9 as stated: no later job of the period fires the tier again.
C9_Original == (Triggered /\ PriorInPeriod # {}) => ~ev.trig.fired

\* The job of 04:00Z reads the daily property the job of 03:00Z wrote and
\* does not fire daily.
C9_Witness ==
    /\ Triggered
    /\ ev.trig.tier = "daily"
    /\ ev.trig.tick = Wed0400
    /\ ~ev.trig.fired
    /\ \E w \in PriorInPeriod :
          w[2] = Wed0300 /\ \E g \in ev.trig.got : g = <<w[3], Wed0300>>

\* C10: a tier whose stored last runs, as far as the job could read them,
\* all lie in earlier periods than the tick fires; a regular job that has
\* returned leaves every calendar tier enforced by a job of the tick's
\* period.
C10_MissedTicks ==
    /\ Triggered =>
          ((\A g \in ev.trig.got :
                PeriodOf(ev.trig.tier, g[2], zone)
                    < PeriodOf(ev.trig.tier, ev.trig.tick, zone))
              => ev.trig.fired)
    /\ ev.fin.kind = "regular" =>
          \A tier \in CalTiers :
              \E e \in enforced :
                  /\ e[1] = tier
                  /\ PeriodOf(tier, e[2], zone)
                         = PeriodOf(tier, ev.fin.tick, zone)

\* The job of 05:00Z, local midnight, has returned: daily was enforced by
\* the job of 03:00Z and, a day later, again by the job of 05:00Z.
C10_Witness ==
    /\ ev.fin.kind = "regular"
    /\ ev.fin.tick = Wed0500
    /\ <<"daily", Wed0300>> \in enforced
    /\ <<"daily", Wed0500>> \in enforced

----------------------------------------------------------------------------
(* The pool properties.                                                    *)

\* The pools a write of the tier by the job of tick t was attempted on.
TriedPools(tier, t) == {w[3] : w \in {v \in tried : v[1] = tier /\ v[2] = t}}

\* A regular job that returned in the last step attempted, for every tier
\* whose trigger returned true, a write on every pool, and no write for any
\* other tier.
WrittenBack ==
    ev.fin.kind = "regular" =>
        \A tier \in CalTiers :
            TriedPools(tier, ev.fin.tick) =
                IF <<tier, ev.fin.tick>> \in enforced
                THEN ExtractPools(policy) ELSE {}

\* No write is attempted for a tier whose trigger has not returned true.
TriedOnlyFired == \A w \in tried : <<w[1], w[2]>> \in enforced

\* A step changes the properties only by the successful write of a job, on
\* the one property of the pool and tier of the write, to the decimal text
\* of the job's tick.
WriteStep ==
    props' # props =>
        /\ journal'.Type = "ETSetPoolProperty"
        /\ journal'.Success
        /\ \E j \in Slots :
              /\ jobs[j].kind = "regular"
              /\ jobs[j].pc = "write"
              /\ jobs[j].tag = journal'.Job
              /\ <<journal'.Job, jobs[j].tick, journal'.Target>>
                     \in tried' \ tried
              /\ ParseInt(props'[journal'.Target][journal'.Job])
                     = [ok |-> TRUE, value |-> jobs[j].tick]
        /\ \A p \in DOMAIN props, tier \in CalTiers :
              (p # journal'.Target \/ tier # journal'.Job) =>
                  props'[p][tier] = props[p][tier]

\* C11: a regular job writes the property of a calendar tier iff the tier's
\* trigger fired in it: having fired, it attempts the write of its tick on
\* every pool whatever the outcome on the others; not having fired, it
\* leaves the property alone on every pool.
C11_WriteBack ==
    [](WrittenBack /\ TriedOnlyFired) /\ [][WriteStep]_vars

\* The job of 03:00Z has returned: daily fired, its write failed on one pool
\* and succeeded on the other; monthly did not fire and was not written.
C11_Witness ==
    /\ ev.fin.kind = "regular"
    /\ ev.fin.tick = Wed0300
    /\ <<"daily", Wed0300>> \in enforced
    /\ <<"monthly", Wed0300>> \notin enforced
    /\ TriedPools("monthly", Wed0300) = {}
    /\ \E p, q \in ExtractPools(policy) :
          /\ <<"daily", Wed0300, p>> \in tried \ written
          /\ <<"daily", Wed0300, q>> \in written

\* The last run a property text stands for: 0 for a text that is no number.
StoredOf(text) == IF ParseInt(text).ok THEN ParseInt(text).value ELSE 0

\* No stored last run decreases in the step.
NoDecrease ==
    \A p \in DOMAIN props, tier \in CalTiers :
        StoredOf(props'[p][tier]) >= StoredOf(props[p][tier])

\* C12 (as amended): as long as no two regular jobs have been in flight at
\* once, no write lowers the stored last run of any pool and tier.
C12_Monotone == [][~overlap' => NoDecrease]_vars

\* C12 as stated: no write lowers a stored last run, overlap or not.
C12_Original == [][NoDecrease]_vars

\* The job of Wednesday, spawned after the job of Sunday returned, has
\* replaced Sunday's daily last run by its own tick.
C12_Witness ==
    /\ ~overlap
    /\ journal.Type = "ETSetPoolProperty"
    /\ journal.Success
    /\ journal.Job = "daily"
    /\ <<"daily", Sun2200, journal.Target>> \in written
    /\ StoredOf(props[journal.Target]["daily"]) = Wed0300

----------------------------------------------------------------------------
(* Jobs in flight at once.                                                 *)

\* The snapshots, as <<dataset, tier, stamp>>, that the open pass of a job
\* has created, has selected for destruction or has destroyed.
TouchOf(job) ==
    IF job.cur = NoTarget THEN {}
    ELSE LET on == Reach(policy, job.cur, PlanOf(job.cur).Recursive)
             mine == ({job.info.new} \ {0}) \cup SeqToSet(job.info.del)
                        \cup SeqToSet(job.pending)
         IN  {<<u, job.tag, s>> : u \in on, s \in mine}

\* The frequent job and the regular job of two slots, both in flight.
BothKinds(j, k) == jobs[j].kind = "frequent" /\ jobs[k].kind = "regular"

\* A frequent job and a regular job in flight at once share snapshots of
\* the frequent tier only.
SharedOnlyFrequent ==
    \A j, k \in Slots :
        BothKinds(j, k) =>
            \A x \in TouchOf(jobs[j]) \cap TouchOf(jobs[k]) :
                x[2] = "frequent"

\* A successful create or destroy changes the snapshots of its own tier
\* only: it leaves the lists of the other tiers as they are.
OwnTierStep ==
    \A t \in TargetsOf(policy), tier \in Tiers :
        snaps'[t][tier] # snaps[t][tier] => journal'.Job = tier

\* C13 (as amended): a FrequentJob and a RegularJob in flight at once
\* create, select and destroy disjoint snapshots except in the frequent
\* tier, which both enforce; a create of one tier changes no list of
\* another.
C13_SharedFrequent == [](SharedOnlyFrequent) /\ [][OwnTierStep]_vars

\* C13 as stated: the two jobs never create, select or destroy a common
\* snapshot.
C13_Original ==
    \A j, k \in Slots :
        BothKinds(j, k) => TouchOf(jobs[j]) \cap TouchOf(jobs[k]) = {}

\* The regular job has selected hourly snapshots of y for destruction while
\* the frequent job has selected frequent snapshots of x.
C13_Witness ==
    \E j, k \in Slots :
        /\ BothKinds(j, k)
        /\ jobs[j].pending # <<>>
        /\ jobs[k].tag = "hourly"
        /\ jobs[k].pending # <<>>

\* C14 as stated: no two jobs are inside the create, list and destroy
\* sequence of Enforce for the same target at once.
C14_Original ==
    \A j, k \in Slots :
        (j # k /\ jobs[j].cur # NoTarget) => jobs[j].cur # jobs[k].cur

\* C15 as stated: the pool property read or written for a tier is
\* org.<prefix>d:last<tier>job, with the prefix of the loaded policy.
PrefixKey(prefix, t) ==
    <<"o", "r", "g", ".">> \o prefix \o <<"d", ":", "l", "a", "s", "t">>
    \o TagText[t] \o <<"j", "o", "b">>

C15_Original ==
    journal.Type \in {"ETGetPoolProperty", "ETSetPoolProperty"}
        => keyFormat(journal.Job) = PrefixKey(policy.Prefix, journal.Job)

\* C16 as stated: a prefix of a-z runes of length 1 or 32 loads, a prefix
\* of length 0 or 33 does not.
C16_Original ==
    proc # "loading" =>
        /\ (Len(policy.Prefix) \in {1, LongPrefix}
              /\ \A i \in DOMAIN policy.Prefix :
                     policy.Prefix[i] \in {"a", "k", "z"})
               => proc # "failed"
        /\ Len(policy.Prefix) \in {0, LongPrefix + 1} => proc = "failed"

\* The targets a job's current Enforce still has ahead, with its tier.
Ahead(job) ==
    IF job.pc = "enforce"
    THEN {<<t, job.tag>> : t \in Enabled(job.todo, job.tag)}
    ELSE {}

\* A pass that ends has made its one list call, and one destroy call for
\* every name from index keep of a list that succeeded, none after a list
\* that failed.
PassComplete ==
    ev.pass.job # 0 =>
        /\ ev.pass.nlist = 1
        /\ ev.pass.ndestroy =
               IF ev.pass.lok
               THEN Max0(Len(ev.pass.listed) - SmallValue(ev.pass.keep))
               ELSE 0

\* A target with the tier enabled leaves the work a running Enforce has
\* ahead only by the end of its own pass.
NoTargetSkipped ==
    \A j \in Slots :
        \A x \in Ahead(jobs[j]) \ Ahead(jobs'[j]) :
            proc # "crashed" =>
                /\ ev'.pass.job = j
                /\ ev'.pass.target = x[1]
                /\ ev'.pass.tag = x[2]

\* C17: no error of a create, list or destroy call aborts the rest of an
\* Enforce. Every enabled target is listed once, whatever its create
\* returned and whatever failed on other targets; every name from index
\* keep of a successful list gets its destroy call, whatever the earlier
\* destroys returned; a failed list ends the pass of that target only.
C17_NoAbort == [](PassComplete) /\ [][NoTargetSkipped]_vars

\* A pass whose create failed and whose list had two names to prune: the
\* first destroy failed, the second was called all the same and succeeded.
C17_Witness ==
    /\ ev.pass.job # 0
    /\ ev.pass.ncreate = 1
    /\ ev.pass.new = 0
    /\ ev.pass.lok
    /\ ev.pass.ndestroy = 2
    /\ ev.pass.del = <<ev.pass.listed[Len(ev.pass.listed)]>>
    /\ journal.Type = "ETDestroySnapshot"
    /\ journal.Success

\* The values a trigger's job has read for its tier: those of the reads
\* that returned no error and a text that parses.
ReadValues == {g[2] : g \in ev.trig.got}

MaxOf(S) == CHOOSE m \in S : \A n \in S : n <= m

\* C18: the last run a calendar tier's trigger is evaluated with is the
\* maximum of 0 and the values read without error, from any pool, that parse
\* as decimal integers; a failed read, an unset, empty or non-numeric
\* property adds nothing.
C18_EffectiveLastRun ==
    Triggered => ev.trig.lrt = MaxOf({0} \cup ReadValues)

\* C18 as stated: the maximum of the values read, 0 when there is none.
C18_Original ==
    Triggered =>
        ev.trig.lrt = IF ReadValues = {} THEN 0 ELSE MaxOf(ReadValues)

\* The read of one pool failed, the other pool holds the time of an earlier
\* run: the trigger is evaluated with that time.
C18_Witness ==
    /\ Triggered
    /\ Cardinality(ev.trig.got) = 1
    /\ ev.trig.lrt = Sun2200
    /\ \A p \in DOMAIN props : ParseInt(props[p][ev.trig.tier]).ok
    /\ faults = 0

SamePeriod(tier, a, b) == PeriodOf(tier, a, zone) = PeriodOf(tier, b, zone)

\* The job of tick t fired the tier and its write failed on every pool.
LostAt(tier, t) ==
    /\ TriedPools(tier, t) = ExtractPools(policy)
    /\ \A p \in ExtractPools(policy) : <<tier, t, p>> \notin written

\* The job of tick t fired the tier and its write succeeded on every pool.
WroteAll(tier, t) ==
    \A p \in ExtractPools(policy) : <<tier, t, p>> \in written

WriteTicks == {w[2] : w \in tried}

\* Before the tick of the trigger and in its period, the write of the tier
\* was lost at one tick and, at a later one, the tier fired again and was
\* written.
AfterLoss ==
    \E t1, t2 \in WriteTicks :
        /\ t1 < t2 /\ t2 < ev.trig.tick
        /\ SamePeriod(ev.trig.tier, t1, ev.trig.tick)
        /\ SamePeriod(ev.trig.tier, t2, ev.trig.tick)
        /\ LostAt(ev.trig.tier, t1)
        /\ WroteAll(ev.trig.tier, t2)

\* Before the tick of the trigger and in its period, the write of the tier
\* was lost, and no write of the period has succeeded on any pool.
NextAfterLoss ==
    /\ \E t1 \in WriteTicks :
          /\ t1 < ev.trig.tick
          /\ SamePeriod(ev.trig.tier, t1, ev.trig.tick)
          /\ LostAt(ev.trig.tier, t1)
    /\ \A w \in written :
          w[1] = ev.trig.tier
              => ~SamePeriod(ev.trig.tier, w[2], ev.trig.tick)

Fires(l) == TriggerFn(ev.trig.tier, ev.trig.tick, l, zone)

\* C20 (as amended): on a clock at a fixed offset from UTC and for last
\* runs not after the tick, a trigger that fires for a last run fires for
\* every older one: for last_run <= last_run' <= t, fires(t, last_run')
\* implies fires(t, last_run).
C20_Monotone ==
    Triggered =>
        \A l \in LastRuns :
            /\ (ev.trig.lrt <= l /\ l <= ev.trig.tick /\ Fires(l))
                   => ev.trig.fired
            /\ (l <= ev.trig.lrt /\ ev.trig.lrt <= ev.trig.tick
                    /\ ev.trig.fired) => Fires(l)

\* C20 as stated: for any last_run' >= last_run.
C20_Original ==
    Triggered =>
        \A l \in LastRuns : (ev.trig.lrt <= l /\ Fires(l)) => ev.trig.fired

\* Daily fired for a last run three days before the tick, and fires for
\* the last run of the day before.
C20_Witness ==
    /\ Triggered
    /\ ev.trig.tier = "daily"
    /\ ev.trig.lrt = Sun2200
    /\ ev.trig.fired
    /\ Fires(Wed0300 - 86400)

\* C21 as stated: every operation maps a text with a marker of the table
\* to that marker's kind. The failing calls of this model all fail with a
\* marker of the table, so the event of a failed call carries the reason
\* of one of the six kinds, never the empty reason of an unclassified error.
C21_Original ==
    (journal.Type # "none" /\ ~journal.Success) => journal.Reason # ""

\* The last job in flight returned in the last step.
Quiescent ==
    /\ ev.fin.kind # "none"
    /\ \A j \in Slots : jobs[j].kind = "none"

\* The job that returned has enforced the tier: every job enforces
\* frequent, a regular job hourly and the calendar tiers that fired.
EnforcedBy(fin, tier) ==
    \/ tier = "frequent"
    \/ fin.kind = "regular"
         /\ (tier = "hourly" \/ <<tier, fin.tick>> \in enforced)

\* Target t lies below another target whose plan is recursive and creates
\* snapshots of the tier: that target's create reaches t.
Shadowed(t, tier) ==
    \E u \in TargetsOf(policy) :
        /\ u # t
        /\ t \in Reach(policy, u, PlanOf(u).Recursive)
        /\ Configured(u, tier) # Nil
        /\ KeepPositive(Configured(u, tier))

\* The target has the tier enabled, the job that returned has enforced it,
\* and no list of it and no destroy of an existing snapshot of it failed.
Settled(t, tier) ==
    /\ Configured(t, tier) # Nil
    /\ EnforcedBy(ev.fin, tier)
    /\ <<t, tier>> \notin botched

WithinKeep(t, tier) ==
    AtMostKeep(Cardinality(snaps[t][tier]), Configured(t, tier))

\* C22 (as amended): once the jobs that enforced a tier on a target, at
\* overlapping times or not, have all returned, with every list call and
\* every destroy of an existing snapshot successful, the target holds at
\* most keep snapshots of the tier, unless it lies below a recursive target
\* that creates snapshots of the tier.
C22_QuiescentBound ==
    Quiescent =>
        \A t \in TargetsOf(policy), tier \in Tiers :
            (Settled(t, tier) /\ ~Shadowed(t, tier)) => WithinKeep(t, tier)

\* C22 as stated: for every target.
C22_Original ==
    Quiescent =>
        \A t \in TargetsOf(policy), tier \in Tiers :
            Settled(t, tier) => WithinKeep(t, tier)

\* The last job returns from a pass that another job's create or destroy
\* disturbed, no call having failed: the target is down to keep = 3.
C22_Witness ==
    /\ Quiescent
    /\ ev.pass.job # 0
    /\ ~ev.pass.clean
    /\ botched = {}
    /\ faults = BoundFaults
    /\ ev.pass.target = TX
    /\ Cardinality(snaps[TX]["frequent"]) = 3

\* Clock readings of a create: the epoch, the ticks, the last second of a
\* month.
NameTimes == {0, Sun2200, Wed0300, Wed0300 + 30 * 86400 + 75592}

\* The name CreateSnapshot builds for the tier of the last event, at clock
\* reading sec.
NameAt(sec) == SnapshotName(policy.Prefix, sec, zone, journal.Job)

\* The name of a snapshot just created for a tier is found, whole, by the
\* matcher of that tier in the list of every dataset the create reached,
\* and by the matcher of no other tier.
CreatedOwn ==
    (journal.Type = "ETCreateSnapshot" /\ journal.Success) =>
        \A sec \in NameTimes, tag \in Tiers :
            \A t \in Reach(policy, journal.Target, journal.Recursive) :
                FindAll(policy.Prefix, tag, ListLine(t, NameAt(sec)))
                    = IF tag = journal.Job THEN {NameAt(sec)} ELSE {}

\* A step that changes the snapshots of a tier on a dataset is a create or
\* a destroy of an Enforce for that tier, on a policy target that reaches
\* the dataset: a create only adds, a destroy only removes.
TierFrame ==
    \A t \in TargetsOf(policy), tier \in Tiers :
        snaps'[t][tier] # snaps[t][tier] =>
            /\ journal'.Job = tier
            /\ journal'.Target \in TargetsOf(policy)
            /\ t \in Reach(policy, journal'.Target, journal'.Recursive)
            /\ \/ /\ journal'.Type = "ETCreateSnapshot"
                  /\ snaps[t][tier] \subseteq snaps'[t][tier]
               \/ /\ journal'.Type = "ETDestroySnapshot"
                  /\ snaps'[t][tier] \subseteq snaps[t][tier]

----------------------------------------------------------------------------
(* C24: the property write follows the tier's Enforce.                     *)

\* A step attempts a property write only for a tier and tick whose Enforce
\* had returned before the step.
WriteFollows ==
    \A w \in tried' \ tried : <<w[1], w[2]>> \in enforced

\* The job whose calendar Enforce was cut short has attempted no write of
\* that tier.
HaltedUnwritten ==
    \A h \in halted, p \in ExtractPools(policy) :
        <<h.tier, h.tick, p>> \notin tried

\* The writes of a tier among the writes w.
WritesOf(tier, w) == {v \in w : v[1] = tier}

\* The stopped job h worked from the newest last run stored, and that one
\* is not after its tick.
FromNewest(h) ==
    /\ h.lrt <= h.tick
    /\ \A p \in DOMAIN h.stored :
          ParseInt(h.stored[p]).ok => ParseInt(h.stored[p]).value <= h.lrt

\* The trigger evaluated in the last step belongs to a job that follows the
\* stopped job h, the tier's property not having been written since.
FollowsHalt(h) ==
    /\ ev.trig.tier = h.tier
    /\ ev.trig.tick > h.tick
    /\ WritesOf(h.tier, written) = WritesOf(h.tier, h.written)

\* The tier of a stopped job fires in the jobs that follow it.
FiresAgain ==
    ev.trig.tier # "" =>
        \A h \in halted : (FollowsHalt(h) /\ FromNewest(h)) => ev.trig.fired

\* C24: a property write of a calendar tier is attempted only after that
\* tier's Enforce over all targets has returned; a job stopped part-way
\* through the Enforce has written nothing for the tier, and the tier fires
\* in the next regular job when the stopped job worked from the newest
\* stored last run, that one not after its tick, and nothing has written
\* the property since.
C24_WriteFollows ==
    [](HaltedUnwritten /\ FiresAgain) /\ [][WriteFollows]_vars

\* The claim as stated: the tier fires in the next regular job whatever the
\* stopped job read.
C24_Original ==
    ev.trig.tier # "" =>
        \A h \in halted : FollowsHalt(h) => ev.trig.fired

\* The daily Enforce of 23:00 stopped on x with nothing stored; after the
\* restart the job of 03:00 fires daily.
C24_Witness ==
    /\ ev.trig.tier = "daily"
    /\ ev.trig.tick = Wed0300
    /\ ev.trig.fired
    /\ \E h \in halted :
          /\ h.tick = Tue2300
          /\ FollowsHalt(h)
          /\ FromNewest(h)
          /\ \A p \in DOMAIN h.stored : h.stored[p] = Unset

----------------------------------------------------------------------------
(* C25: keep counts above the largest signed integer.                      *)

\* The targets whose list, were it run now for the tier, returns fewer
\* than keep + 1 names, keep read as the unsigned integer it is.
FewerThanKeep(tag) ==
    {t \in TargetsOf(policy) :
        /\ KeepOf(t, tag) # Nil
        /\ Len(SortDesc(snaps[t][tag])) <= SmallValue(KeepOf(t, tag))}

\* C25, as stated: after a list that returned fewer than keep + 1 names
\* the pass goes on normally, whatever unsigned value keep has: the process
\* has not ended in a panic.
C25_Original ==
    (/\ journal.Type = "ETListSnapshotNames"
     /\ journal.Success
     /\ journal.Target \in FewerThanKeep(journal.Job)) =>
        proc # "crashed"

====
